---------------------------- MODULE Spec2Model ----------------------------
(***************************************************************************)
(* Batch operations of the DynamoDB course repository:                     *)
(*   getUserAnalytics  (src/src/section3/01-solution.ts)  BatchGetItem     *)
(*   batchAddContent   (src/src/section3/02-solution.ts)  BatchWriteItem   *)
(* One behaviour is one call of one of the two functions.  A step is the   *)
(* code that runs between two awaits: the call up to the first send, the   *)
(* handling of one store response (or fault) up to the next await, and the *)
(* wake-up after a backoff sleep.                                          *)
(*                                                                         *)
(* Strings are sequences of tokens: a literal piece of a template string   *)
(* ("USER#", "EPISODE#", "METADATA") is one token, every other character   *)
(* is a token of its own.  Template concatenation is \o.                   *)
(***************************************************************************)
EXTENDS Integers, Sequences, FiniteSets, TLC

\* ------------------------------------------------------------ constants

\* getUserAnalytics: `userIds.length > 100` is rejected
MaxReadBatch == 100

\* batchAddContent: `content.length > 25` is rejected
MaxWriteContent == 25

\* batchAddContent: chunkArray(batchItems, 25)
WriteChunkSize == 25

\* getUserAnalytics: const maxRetries = 3
maxRetries == 3

\* batchAddContent: `retryCount < 3`
MaxWriteRetries == 3

\* both loops: Math.pow(2, retryCount) * 100
BackoffUnit == 100

\* The store's documented ceilings per call (BatchGetItem, BatchWriteItem)
StoreReadCeiling == 100

StoreWriteCeiling == 25

\* ------------------------------------------------------------ bounds

\* longest explicit userIds list (longer lists are the generated wide ones)
MaxUserIds == 2

\* longest explicit content list
MaxContent == 2

\* episodes offered for the series of the explicit inputs
MaxEpisodes == 2

\* a request of at most this many entries may come back with any
\* sub-sequence unprocessed; a longer one with one of a few shapes
MaxFullChoice == 4

\* chunkArray alone: the longest array and the largest size it is given
MaxChunkInput == 4

MaxChunkSize == 3

\* the calls of one behaviour of the single-item operations
MaxCalls == 2

\* the calls of one behaviour of putProduct and deleteProduct
MaxProductCalls == 3

\* ------------------------------------------------------------ strings

Digits == {"0", "1", "2", "3", "4", "5", "6", "7", "8", "9"}

DigitOf(d) == CASE d = 0 -> "0" [] d = 1 -> "1" [] d = 2 -> "2" [] d = 3 -> "3"
                [] d = 4 -> "4" [] d = 5 -> "5" [] d = 6 -> "6" [] d = 7 -> "7"
                [] d = 8 -> "8" [] d = 9 -> "9"

\* Number.prototype.toString() of a natural number
RECURSIVE ToDigits(_)
ToDigits(n) == IF n < 10 THEN <<DigitOf(n)>>
               ELSE Append(ToDigits(n \div 10), DigitOf(n % 10))

\* String.prototype.padStart(2, "0")
PadStart2(s) == IF Len(s) >= 2 THEN s ELSE IF Len(s) = 1 THEN <<"0">> \o s
                ELSE <<"0", "0">>

\* /^\d+$/.test(id)
IsDigits(id) == Len(id) > 0 /\ \A i \in 1..Len(id) : id[i] \in Digits

\* String.prototype.startsWith(prefix), prefix one token
StartsWith(s, prefix) == Len(s) > 0 /\ s[1] = prefix

\* a replace that leaves the string as it is
RemoveFirstKept(s, piece) == s

\* String.prototype.replace(piece, ""), piece one token: first occurrence
RemoveFirst(s, piece) ==
    IF \E i \in 1..Len(s) : s[i] = piece
    THEN LET i == CHOOSE k \in 1..Len(s) :
                      s[k] = piece /\ \A j \in 1..(k-1) : s[j] # piece
         IN  SubSeq(s, 1, i-1) \o SubSeq(s, i+1, Len(s))
    ELSE s

\* ------------------------------------------------------------ sequences

SeqsUpTo(S, n) == UNION {[1..k -> S] : k \in 0..n}

\* the entries of s at the positions in I, in order
Pick(s, I) ==
    LET F[k \in 0..Len(s)] ==
            IF k = 0 THEN <<>>
            ELSE IF k \in I THEN Append(F[k-1], s[k]) ELSE F[k-1]
    IN  F[Len(s)]

Range(s) == {s[i] : i \in 1..Len(s)}

HasDuplicates(s) == \E i, j \in 1..Len(s) : i < j /\ s[i] = s[j]

\* Array.prototype.concat / spread of a sequence of sequences
RECURSIVE Flatten(_)
Flatten(ss) == IF Len(ss) = 0 THEN <<>> ELSE Head(ss) \o Flatten(Tail(ss))

Pow2(n) == 2 ^ n


\* ------------------------------------------------ batchAddContent: helpers

NoError == <<>>

\* validateItem without the check of a series' episodes
validateItemNoEpisodesCheck(item, episodes, stats) ==
    IF item.id = <<>> \/ item.title = <<>> \/ item.type = ""
    THEN <<"Invalid content item: Missing required fields for ">>
            \o (IF item.id # <<>> THEN item.id ELSE <<"unknown">>)
    ELSE IF ~ \E i \in 1..Len(stats) : stats[i].contentId = item.id
    THEN <<"Missing stats for content ">> \o item.id
    ELSE NoError

\* const validateInputs = (content, episodes, stats): string | null,
\* the body of the for loop for one content item
validateItem(item, episodes, stats) ==
    IF item.id = <<>> \/ item.title = <<>> \/ item.type = ""
    THEN <<"Invalid content item: Missing required fields for ">>
            \o (IF item.id # <<>> THEN item.id ELSE <<"unknown">>)
    ELSE IF item.type = "SERIES"
            /\ Len(SelectSeq(episodes, LAMBDA ep : ep.seriesId = item.id)) = 0
    THEN <<"No episodes provided for series ">> \o item.id
    ELSE IF ~ \E i \in 1..Len(stats) : stats[i].contentId = item.id
    THEN <<"Missing stats for content ">> \o item.id
    ELSE NoError

\* the error of the first content item that has one
RECURSIVE validateItemsFrom(_, _, _, _)
validateItemsFrom(i, content, episodes, stats) ==
    IF i > Len(content) THEN NoError
    ELSE LET e == validateItem(content[i], episodes, stats)
         IN  IF e # NoError THEN e
             ELSE validateItemsFrom(i + 1, content, episodes, stats)

validateInputs(content, episodes, stats) ==
    IF Len(content) = 0 THEN <<"No content items provided">>
    ELSE IF Len(content) > MaxWriteContent
    THEN <<"Batch size exceeds maximum limit of 25 items">>
    ELSE validateItemsFrom(1, content, episodes, stats)

\* SK of an episode item: `EPISODE#S${season padStart 2}E${episode padStart 2}`
EpisodeSK(episode) ==
    <<"EPISODE#", "S">> \o PadStart2(ToDigits(episode.seasonNumber))
        \o <<"E">> \o PadStart2(ToDigits(episode.episodeNumber))

\* the items formatBatchWriteItems pushes for one content item
ItemsOf(item, episodes, stats) ==
    LET meta == <<[PK |-> item.id, SK |-> <<"METADATA">>,
                   entity_type |-> <<item.type>>]>>
        st   == IF \E i \in 1..Len(stats) : stats[i].contentId = item.id
                THEN <<[PK |-> item.id, SK |-> <<"STATS">>,
                        entity_type |-> <<item.type, "_STATS">>]>>
                ELSE <<>>
        eps  == IF item.type = "SERIES"
                THEN LET se == SelectSeq(episodes,
                                         LAMBDA ep : ep.seriesId = item.id)
                     IN  [i \in 1..Len(se) |->
                             [PK |-> item.id, SK |-> EpisodeSK(se[i]),
                              entity_type |-> <<"EPISODE">>]]
                ELSE <<>>
    IN  meta \o st \o eps

formatBatchWriteItems(content, episodes, stats) ==
    Flatten([i \in 1..Len(content) |-> ItemsOf(content[i], episodes, stats)])

Min(a, b) == IF a < b THEN a ELSE b

\* slices that stop one entry short
chunkArrayShort(array, size) ==
    [k \in 1..((Len(array) + size - 1) \div size) |->
        SubSeq(array, (k - 1) * size + 1, Min(k * size, Len(array)) - 1)]

\* one chunk holding the whole array
chunkArrayWhole(array, size) == <<array>>

\* Array.from({length: Math.ceil(array.length / size)},
\*            (_, i) => array.slice(i * size, (i + 1) * size))
chunkArray(array, size) ==
    [k \in 1..((Len(array) + size - 1) \div size) |->
        SubSeq(array, (k - 1) * size + 1, Min(k * size, Len(array)))]

ZeroCount == [metadata |-> 0, episodes |-> 0, stats |-> 0]

\* one step of the forEach at "Update counts"
CountItem(count, item) ==
    IF item.SK = <<"METADATA">>
    THEN [count EXCEPT !.metadata = @ + 1]
    ELSE IF StartsWith(item.SK, "EPISODE#")
    THEN [count EXCEPT !.episodes = @ + 1]
    ELSE IF item.SK = <<"STATS">>
    THEN [count EXCEPT !.stats = @ + 1]
    ELSE count

\* unprocessedChunk.forEach(...) after unprocessedChunk has been set to the
\* response's UnprocessedItems
RECURSIVE UpdateCounts(_, _)
UpdateCounts(count, items) ==
    IF Len(items) = 0 THEN count
    ELSE UpdateCounts(CountItem(count, Head(items)), Tail(items))

MaxRetriesReason == <<"Failed after maximum retries">>

\* unprocessedItems.map(...) of the response
ReportItem(item) ==
    [itemId |-> item.PK,
     type   |-> IF item.SK = <<"METADATA">> THEN "metadata"
                ELSE IF item.SK = <<"STATS">> THEN "stats" ELSE "episode",
     reason |-> MaxRetriesReason]

NoResult ==
    [status |-> "none", success |-> FALSE, message |-> <<>>, error |-> <<>>,
     processedItems |-> ZeroCount, unprocessedItems |-> <<>>, data |-> <<>>]

\* the return statement after the chunks' loop
WriteReturn(processedCount, unprocessedItems) ==
    [status |-> "returned",
     success |-> Len(unprocessedItems) = 0,
     message |-> IF Len(unprocessedItems) = 0
                 THEN <<"All items processed successfully">>
                 ELSE <<"Some items were not processed">>,
     error |-> <<>>,
     processedItems |-> processedCount,
     unprocessedItems |->
        [i \in 1..Len(unprocessedItems) |-> ReportItem(unprocessedItems[i])],
     data |-> <<>>]

\* the return of a validation error
WriteInvalid(validationError) ==
    [status |-> "returned", success |-> FALSE, message |-> <<>>,
     error |-> validationError, processedItems |-> ZeroCount,
     unprocessedItems |-> <<>>, data |-> <<>>]

\* the outer catch of batchAddContent
WriteCatch(error) ==
    [status |-> "returned", success |-> FALSE, message |-> <<>>,
     error |-> <<error>>, processedItems |-> ZeroCount,
     unprocessedItems |-> <<>>, data |-> <<>>]

\* the catch leaving the whole function instead of the chunk's loop
OnChunkFaultAbortAll(unprocessedItems, unprocessedChunk) ==
    [unprocessedItems |-> unprocessedItems \o unprocessedChunk,
     exit |-> "return"]

\* the catch inside the retry loop: the pending items are recorded and the
\* retry loop of this chunk is left (break)
OnChunkFault(unprocessedItems, unprocessedChunk) ==
    [unprocessedItems |-> unprocessedItems \o unprocessedChunk,
     exit |-> "break"]

\* the leftover of a chunk forgotten
RemainingDropped(unprocessedItems, unprocessedChunk) == unprocessedItems

\* "Add any remaining unprocessed items after retries"
Remaining(unprocessedItems, unprocessedChunk) ==
    IF Len(unprocessedChunk) > 0
    THEN unprocessedItems \o unprocessedChunk
    ELSE unprocessedItems

\* a request that leaves out the first of several pending items
WriteInputTail(unprocessedChunk) ==
    IF Len(unprocessedChunk) > 1 THEN Tail(unprocessedChunk)
    ELSE unprocessedChunk

\* const input = { RequestItems: { [TABLE_NAME]: unprocessedChunk } }
WriteInput(unprocessedChunk) == unprocessedChunk

\* a guard that looks at the retry count alone
WriteLoopGuardCountOnly(unprocessedChunk, retryCount) ==
    retryCount < MaxWriteRetries

\* while (unprocessedChunk.length > 0 && retryCount < 3)
WriteLoopGuard(unprocessedChunk, retryCount) ==
    Len(unprocessedChunk) > 0 /\ retryCount < MaxWriteRetries

\* a backoff that shrinks as the retries go on
BackoffShrinking(retryCount) == Pow2(maxRetries - retryCount) * BackoffUnit

\* Math.pow(2, retryCount) * 100, retryCount already incremented
Backoff(retryCount) == Pow2(retryCount) * BackoffUnit


\* ------------------------------------------------ getUserAnalytics: helpers

\* const formatUserKeys = (userIds) => userIds.map(...)
formatUserKeys(userIds) ==
    [i \in 1..Len(userIds) |->
        [PK |-> <<"USER#">> \o userIds[i], SK |-> <<"PROFILE#">> \o userIds[i]]]

\* const formatViewingHistoryKeys = (userIds) => userIds.map(...)
formatViewingHistoryKeys(userIds) ==
    [i \in 1..Len(userIds) |->
        [PK |-> <<"USER#">> \o userIds[i], SK |-> <<"VIEWING#">>]]

\* Keys: [...formatUserKeys(userIds), ...formatViewingHistoryKeys(userIds)]
ReadKeys(userIds) == formatUserKeys(userIds) \o formatViewingHistoryKeys(userIds)

\* the return of a validation error
ReadInvalid(error) ==
    [status |-> "returned", success |-> FALSE, message |-> <<>>,
     error |-> error, processedItems |-> ZeroCount,
     unprocessedItems |-> <<>>, data |-> <<>>]

\* "Input validation" of getUserAnalytics: the error returned, or none
ValidateUserIds(missing, userIds) ==
    IF missing \/ Len(userIds) = 0
    THEN <<"User IDs array cannot be empty">>
    ELSE IF Len(userIds) > MaxReadBatch
    THEN <<"Cannot process more than 100 items in a batch">>
    ELSE IF ~ \A i \in 1..Len(userIds) : IsDigits(userIds[i])
    THEN <<"Invalid user ID format detected">>
    ELSE NoError

\* allViewingHistories.filter((vh) => vh.PK === profile.PK).map(...)
ViewingHistoryOf(profile, allViewingHistories) ==
    LET mine == SelectSeq(allViewingHistories, LAMBDA vh : vh.PK = profile.PK)
    IN  [i \in 1..Len(mine) |->
            [movieId |-> mine[i].movie_id,
             watchDuration |-> mine[i].watch_duration,
             completed |-> mine[i].completed,
             watchDate |-> Tail(mine[i].SK)]]

\* allProfiles.map((profile) => ...)
FormatData(allProfiles, allViewingHistories) ==
    [i \in 1..Len(allProfiles) |->
        [userId |-> RemoveFirst(allProfiles[i].PK, "USER#"),
         name |-> allProfiles[i].name,
         subscriptionTier |-> allProfiles[i].subscription_tier,
         viewingHistory |->
            ViewingHistoryOf(allProfiles[i], allViewingHistories)]]

\* the return statement after the retry loop
ReadReturn(unprocessedKeys, allProfiles, allViewingHistories) ==
    [status |-> "returned",
     success |-> TRUE,
     message |-> IF unprocessedKeys
                 THEN <<"Some items could not be retrieved after maximum retries">>
                 ELSE <<"All items retrieved successfully">>,
     error |-> <<>>,
     processedItems |-> ZeroCount,
     unprocessedItems |-> <<>>,
     data |-> FormatData(allProfiles, allViewingHistories)]

\* the catch letting the fault through
ReadCatchRethrow(error) ==
    [status |-> "raised", success |-> FALSE, message |-> <<>>,
     error |-> <<error>>, processedItems |-> ZeroCount,
     unprocessedItems |-> <<>>, data |-> <<>>]

\* the catch of getUserAnalytics
ReadCatch(error) ==
    [status |-> "returned", success |-> FALSE, message |-> <<>>,
     error |-> <<error>>, processedItems |-> ZeroCount,
     unprocessedItems |-> <<>>, data |-> <<>>]

\* a guard that allows one attempt more
ReadLoopGuardLate(unprocessedKeys, retryCount) ==
    unprocessedKeys /\ retryCount <= maxRetries

\* while (unprocessedKeys && retryCount < maxRetries)
ReadLoopGuard(unprocessedKeys, retryCount) ==
    unprocessedKeys /\ retryCount < maxRetries

\* ------------------------------------------------------------ the store

\* A batch call is rejected as a whole when it exceeds the store's ceiling
\* or names the same key twice.
StoreRejects(request, ceiling) ==
    Len(request) > ceiling
    \/ \E i, j \in 1..Len(request) :
          i < j /\ request[i].PK = request[j].PK /\ request[i].SK = request[j].SK

\* what a batch call can raise
Faults(request, ceiling) ==
    IF StoreRejects(request, ceiling) THEN {"ValidationException"}
    ELSE {"ThrottlingException", "AccessDeniedException"}

\* the sub-sequences of a request that a response can leave unprocessed
UnprocessedChoices(request) ==
    IF Len(request) <= MaxFullChoice
    THEN {Pick(request, I) : I \in SUBSET (1..Len(request))}
    ELSE {<<>>, request, <<request[1]>>, <<request[Len(request)]>>,
          Tail(request)}

\* the stored item under a key of the read table, as unmarshall returns it
StoredItem(key) ==
    IF StartsWith(key.SK, "PROFILE#")
    THEN [PK |-> key.PK, SK |-> key.SK, name |-> <<"name-">> \o Tail(key.SK),
          subscription_tier |-> <<"premium">>]
    ELSE [PK |-> key.PK, SK |-> key.SK, movie_id |-> <<"MOVIE#", "1">>,
          watch_duration |-> 60, completed |-> TRUE]

\* whether the table holds an item under the key
Stored(tbl, key) ==
    IF StartsWith(key.SK, "PROFILE#")
    THEN Tail(key.PK) \notin tbl.missingProfiles
    ELSE Tail(key.PK) \in tbl.viewingStubs

\* Responses[TABLE_NAME] of a BatchGetItem that left `unprocessed` aside
ReadResponses(tbl, request, unprocessed) ==
    LET got == SelectSeq(request,
                   LAMBDA k : k \notin Range(unprocessed) /\ Stored(tbl, k))
    IN  [i \in 1..Len(got) |-> StoredItem(got[i])]


\* ------------------------------------------------------------ inputs

\* identifiers offered to getUserAnalytics: two well-formed, two malformed
ReadIds == {<<"1">>, <<"2">>, <<"1", "x">>, <<>>}

\* n distinct well-formed identifiers
WideUserIds(n) == [i \in 1..n |-> ToDigits(1000 + i)]

WideReadCounts ==
    {MaxReadBatch \div 2, MaxReadBatch \div 2 + 1, MaxReadBatch, MaxReadBatch + 1}

Movie(n) == [id |-> <<"MOVIE#">> \o ToDigits(n), title |-> <<"t">>,
             type |-> "MOVIE"]

Series(n) == [id |-> <<"SERIES#">> \o ToDigits(n), title |-> <<"t">>,
              type |-> "SERIES"]

Episode(series, season, number) ==
    [seriesId |-> series.id, seasonNumber |-> season, episodeNumber |-> number]

StatsOf(item) == [contentId |-> item.id]

ContentDomain ==
    {Movie(1), Series(2),
     [id |-> <<"MOVIE#", "3">>, title |-> <<>>, type |-> "MOVIE"],
     [id |-> <<>>, title |-> <<"t">>, type |-> "MOVIE"]}

EpisodeInputs ==
    {[k \in 1..n |-> Episode(Series(2), 1, k)] : n \in 0..MaxEpisodes}
    \cup {<<Episode(Series(7), 1, 1)>>,
          <<Episode(Series(2), 1, 1), Episode(Series(2), 1, 1)>>}

StatsInputs ==
    {<<>>, <<StatsOf(Movie(1))>>, <<StatsOf(Series(2))>>,
     <<StatsOf(Movie(1)), StatsOf(Series(2))>>}

\* n movies with their stats: 2n items
WideMovies(n) ==
    [content |-> [i \in 1..n |-> Movie(100 + i)],
     episodes |-> <<>>,
     stats |-> [i \in 1..n |-> StatsOf(Movie(100 + i))]]

\* one series with n episodes and its stats: n + 2 items
WideSeries(n) ==
    [content |-> <<Series(2)>>,
     episodes |-> [k \in 1..n |-> Episode(Series(2), 1, k)],
     stats |-> <<StatsOf(Series(2))>>]

WideWriteInputs ==
    {WideMovies(WriteChunkSize \div 2 + 1), WideMovies(MaxWriteContent),
     WideMovies(MaxWriteContent + 1), WideSeries(WriteChunkSize - 1)}

ReadArgs ==
    {[fn |-> "getUserAnalytics", missing |-> FALSE, userIds |-> u,
      content |-> <<>>, episodes |-> <<>>, stats |-> <<>>] :
        u \in SeqsUpTo(ReadIds, MaxUserIds)
              \cup {WideUserIds(n) : n \in WideReadCounts}}
    \cup {[fn |-> "getUserAnalytics", missing |-> TRUE, userIds |-> <<>>,
           content |-> <<>>, episodes |-> <<>>, stats |-> <<>>]}

WriteArgs ==
    {[fn |-> "batchAddContent", missing |-> FALSE, userIds |-> <<>>,
      content |-> c, episodes |-> e, stats |-> s] :
        c \in SeqsUpTo(ContentDomain, MaxContent), e \in EpisodeInputs,
        s \in StatsInputs}
    \cup {[fn |-> "batchAddContent", missing |-> FALSE, userIds |-> <<>>,
           content |-> w.content, episodes |-> w.episodes, stats |-> w.stats] :
            w \in WideWriteInputs}
    \cup {[fn |-> "batchAddContent", missing |-> TRUE, userIds |-> <<>>,
           content |-> <<>>, episodes |-> <<>>, stats |-> <<>>]}

\* the read table: users without a profile, users with an item under the
\* sort key "VIEWING#"
ReadTables ==
    {[missingProfiles |-> m, viewingStubs |-> v] :
        m \in {{}, {<<"2">>}}, v \in {{}, {<<"1">>}}}

EmptyTable == [missingProfiles |-> {}, viewingStubs |-> {}]

\* ------------------------------------------------ updateInventory: helpers

\* String(n) of an integer
StringOfInt(n) == IF n < 0 THEN <<"-">> \o ToDigits(0 - n) ELSE ToDigits(n)

\* the digit a digit character stands for
ValueOfDigit(ch) == CHOOSE d \in 0..9 : DigitOf(d) = ch

\* the natural number a string of digits reads as
RECURSIVE ValueOfDigits(_)
ValueOfDigits(s) ==
    IF Len(s) = 0 THEN 0
    ELSE 10 * ValueOfDigits(SubSeq(s, 1, Len(s) - 1)) + ValueOfDigit(s[Len(s)])

\* the integer a decimal string reads as
NumberOf(s) ==
    IF StartsWith(s, "-") THEN 0 - ValueOfDigits(Tail(s)) ELSE ValueOfDigits(s)

\* the UTF-8 code of a character of a decimal string
CodeOf(ch) == IF ch = "-" THEN 45 ELSE 48 + ValueOfDigit(ch)

\* a >= b for values of type S: byte-wise, a prefix sorting first
RECURSIVE StringGeq(_, _)
StringGeq(a, b) ==
    IF Len(b) = 0 THEN TRUE
    ELSE IF Len(a) = 0 THEN FALSE
    ELSE IF CodeOf(a[1]) # CodeOf(b[1]) THEN CodeOf(a[1]) > CodeOf(b[1])
    ELSE StringGeq(Tail(a), Tail(b))

\* attribute values as the store holds them: a type and its string
AttrS(s) == [type |-> "S", value |-> s]

AttrN(n) == [type |-> "N", value |-> StringOfInt(n)]

\* an attribute the item does not have
Absent == [type |-> "absent", value |-> <<>>]

\* the comparison a >= b of a condition expression: operands of
\* different types do not compare
AttrGeq(a, b) ==
    /\ a.type = b.type
    /\ IF a.type = "S" THEN StringGeq(a.value, b.value)
       ELSE NumberOf(a.value) >= NumberOf(b.value)

\* no item under the key
NoItem == [exists |-> FALSE, stock |-> Absent, lastUpdated |-> Absent]

\* marshall({":quantity": String(request.quantity), ":zero": "0",
\*           ":updateTime": new Date().toISOString()})
expressionAttributeValues(request) ==
    [quantity |-> AttrS(StringOfInt(request.quantity)),
     zero |-> AttrS(<<"0">>),
     updateTime |-> AttrS(<<"now">>)]

\* "attribute_not_exists(stock) OR
\*  (attribute_exists(stock) AND stock >= :zero)"
UpdateCondition(item, values) ==
    item.stock = Absent \/ (item.stock # Absent /\ AttrGeq(item.stock, values.zero))

\* "SET stock = :quantity, lastUpdated = :updateTime"
UpdateExpression(item, values) ==
    [exists |-> TRUE, stock |-> values.quantity, lastUpdated |-> values.updateTime]

\* a result without data
NoData == NoItem

\* return { success: true, data }
UpdateReturn(attributes) ==
    [success |-> TRUE, data |-> attributes, error |-> <<>>]

\* a catch that reports every error by its message
UpdateCatchMessage(error) ==
    [success |-> FALSE, data |-> NoData, error |-> <<error>>]

\* the catch of updateInventory
UpdateCatch(error) ==
    IF error = "ConditionalCheckFailedException"
    THEN [success |-> FALSE, data |-> NoData,
          error |-> <<"Insufficient stock available">>]
    ELSE [success |-> FALSE, data |-> NoData, error |-> <<error>>]

\* what a single-item call can raise besides a failed condition
ItemFaults == {"ThrottlingException"}

\* ------------------------------------------------ putProduct: helpers

\* Numbers of a product are held in thousandths: 599.99 is 599990.

\* Number.prototype.toString() of a non-negative number
NumberToString(m) ==
    LET f == m % 1000
        d1 == DigitOf(f \div 100)
        d2 == DigitOf((f \div 10) % 10)
        d3 == DigitOf(f % 10)
    IN  ToDigits(m \div 1000) \o
            (IF f = 0 THEN <<>>
             ELSE IF d3 # "0" THEN <<".", d1, d2, d3>>
             ELSE IF d2 # "0" THEN <<".", d1, d2>>
             ELSE <<".", d1>>)

\* Number.prototype.toFixed(2) of a non-negative number
ToFixed2(m) ==
    LET h == (m + 5) \div 10
    IN  ToDigits(h \div 100) \o <<".">> \o PadStart2(ToDigits(h % 100))

\* Number.isInteger
IsInteger(m) == m % 1000 = 0

\* the strings Date.parse reads as a date: the ISO format and the format
\* of Date.prototype.toUTCString
IsoDates == {<<"2024-01-01T00:00:00.000Z">>}

ParseableDates == IsoDates \cup {<<"Mon, 01 Jan 2024 00:00:00 GMT">>}

\* const approvedBrands = [...]
approvedBrands == {<<"Apple">>, <<"Samsung">>, <<"Sony">>, <<"Nike">>, <<"Adidas">>}

\* const requiredFields = [...]
requiredFields ==
    <<"PK", "SK", "productId", "name", "category", "price", "stock",
      "lastUpdated", "brand">>

\* !product[field]: an empty string and the number 0 are falsy
Falsy(product, field) ==
    IF field \in {"price", "stock"} THEN product[field] = 0
    ELSE product[field] = <<>>

\* the validation of putProduct: the error returned, or none
validateProduct(product) ==
    LET missing == {i \in 1..Len(requiredFields) :
                       Falsy(product, requiredFields[i])}
    IN  IF missing # {}
        THEN <<"Missing required field: ",
               requiredFields[CHOOSE i \in missing : \A j \in missing : i <= j]>>
        ELSE IF product.price <= 0
                \/ ToFixed2(product.price) # NumberToString(product.price)
        THEN <<"Price must be positive with max 2 decimal places">>
        ELSE IF product.stock < 0 \/ ~ IsInteger(product.stock)
        THEN <<"Stock must be a non-negative integer">>
        ELSE IF ~ StartsWith(product.PK, "PRODUCT#")
                \/ ~ StartsWith(product.SK, "METADATA#")
        THEN <<"Invalid PK or SK format">>
        ELSE IF product.lastUpdated \notin ParseableDates
        THEN <<"Invalid date format">>
        ELSE IF product.brand \notin approvedBrands
        THEN <<"Invalid brand">>
        ELSE NoError

\* a condition that lets every put through
PutConditionNone(stored) == TRUE

\* "attribute_not_exists(PK) AND attribute_not_exists(SK)": stored is the
\* item under the key of the put, <<>> when there is none
PutCondition(stored) == stored = <<>>

\* return { success: true, data: product }
PutReturn(product) ==
    [success |-> TRUE, data |-> <<product>>, error |-> <<>>, message |-> <<>>]

\* a failed result of a single-item operation
Failed(error) ==
    [success |-> FALSE, data |-> <<>>, error |-> error, message |-> <<>>]

\* the catch of putProduct
PutCatch(error) ==
    IF error = "ConditionalCheckFailedException"
    THEN Failed(<<"Product already exists">>)
    ELSE Failed(<<error>>)

\* the key of a product: PK PRODUCT#<id>, SK METADATA#<id>
ProductKey(productId) ==
    [PK |-> <<"PRODUCT#">> \o productId, SK |-> <<"METADATA#">> \o productId]

\* the UpdateItemCommand of updateInventory
UpdateCommand(request) ==
    [Key |-> ProductKey(request.productId),
     values |-> expressionAttributeValues(request)]

\* the callers that can have a call in progress at the same time
Callers == {1, 2}

\* the product of the inventory table
InventoryIds == {<<"0", "0", "1">>}

Quantities == {-1, 5, 20}

UpdateRequests ==
    {[productId |-> id, quantity |-> q, operation |-> op] :
        id \in InventoryIds, q \in Quantities, op \in {"add", "subtract"}}

\* the product before the calls: not stored, stored without a stock, stored
\* with a stock of 10 as a number or as a string
InitialInventoryItems ==
    {NoItem,
     [exists |-> TRUE, stock |-> Absent, lastUpdated |-> AttrS(<<"seeded">>)],
     [exists |-> TRUE, stock |-> AttrN(10), lastUpdated |-> AttrS(<<"seeded">>)],
     [exists |-> TRUE, stock |-> AttrS(StringOfInt(10)),
      lastUpdated |-> AttrS(<<"seeded">>)]}

\* ------------------------------------------------ deleteProduct: helpers

\* "Validate product ID format": the error returned, or none
validateProductId(productId) ==
    IF productId = <<>> THEN <<"Invalid product ID format">> ELSE NoError

\* "attribute_exists(PK) AND attribute_exists(SK)"
DeleteCondition(stored) == stored # <<>>

\* a return that reports the name of the deleted item as its productId
DeleteReturnNamed(attributes) ==
    IF attributes = <<>>
    THEN Failed(<<"Product not found">>)
    ELSE [success |-> TRUE,
          data |-> <<[productId |-> attributes[1].name,
                      name |-> attributes[1].name,
                      category |-> attributes[1].category,
                      deletedAt |-> <<"now">>]>>,
          error |-> <<>>,
          message |-> <<"Product deleted successfully">>]

\* a return that reports every delete as one that found nothing
DeleteReturnNotFound(attributes) == Failed(<<"Product not found">>)

\* the returns after client.send: Attributes is the deleted item
DeleteReturn(attributes) ==
    IF attributes = <<>>
    THEN Failed(<<"Product not found">>)
    ELSE [success |-> TRUE,
          data |-> <<[productId |-> attributes[1].productId,
                      name |-> attributes[1].name,
                      category |-> attributes[1].category,
                      deletedAt |-> <<"now">>]>>,
          error |-> <<>>,
          message |-> <<"Product deleted successfully">>]

\* the catch of deleteProduct
DeleteCatch(error) ==
    IF error = "ConditionalCheckFailedException"
    THEN Failed(<<"Product does not exist">>)
    ELSE Failed(<<"Failed to delete product: ", error>>)

\* ------------------------------------------------ putProduct: inputs

\* the validProduct of the tests, with a fixed date
validProduct ==
    [PK |-> <<"PRODUCT#", "1", "0", "1">>,
     SK |-> <<"METADATA#", "1", "0", "1">>,
     productId |-> <<"1", "0", "1">>,
     name |-> <<"Smartphone X">>,
     category |-> <<"Electronics">>,
     price |-> 599990,
     stock |-> 50000,
     lastUpdated |-> <<"2024-01-01T00:00:00.000Z">>,
     brand |-> <<"Samsung">>]

\* validProduct with one field changed
With(field, value) == [validProduct EXCEPT ![field] = value]

ProductInputs ==
    {validProduct,
     With("name", <<"Smartphone Y">>),
     With("name", <<>>),
     With("brand", <<>>),
     With("brand", <<"Unknown">>),
     With("price", 0), With("price", 0 - 10990), With("price", 10000),
     With("price", 10500), With("price", 10999),
     With("stock", 0), With("stock", 0 - 1000), With("stock", 1500),
     With("PK", <<"PRODUCT#", "9", "9", "9">>),
     With("PK", <<"ITEM#", "1", "0", "1">>),
     With("SK", <<"INVALID">>),
     With("lastUpdated", <<"not-a-date">>),
     With("lastUpdated", <<"Mon, 01 Jan 2024 00:00:00 GMT">>)}

\* the ids deleteProduct is called with
DeleteIds == {<<>>, <<"1", "0", "1">>, <<"9", "9", "9">>}

\* the key a put writes under
KeyOf(product) == [PK |-> product.PK, SK |-> product.SK]

\* the keys of the table of products
ProductKeys ==
    {KeyOf(product) : product \in ProductInputs}
    \cup {ProductKey(id) : id \in DeleteIds}

\* the table before the calls: empty, or holding validProduct
InitialProductTables ==
    {[k \in ProductKeys |-> <<>>],
     [k \in ProductKeys |-> IF k = KeyOf(validProduct) THEN <<validProduct>>
                            ELSE <<>>]}

\* ------------------------------------------------------------ state

VARIABLES
    args,                 \* the function called and its arguments
    pc,                   \* position of the call
    result,               \* what the call returned (or raised)
    table,                \* the read table of the store
    itemChunks,           \* batchAddContent: chunkArray(batchItems, 25)
    chunkIx,              \* batchAddContent: index of the chunk of the for loop
    retryCount,           \* both: retryCount
    unprocessedChunk,     \* batchAddContent: unprocessedChunk
    processedCount,       \* batchAddContent: processedCount
    unprocessedItems,     \* batchAddContent: unprocessedItems
    unprocessedKeys,      \* getUserAnalytics: unprocessedKeys (a boolean)
    allProfiles,          \* getUserAnalytics: allProfiles
    allViewingHistories,  \* getUserAnalytics: allViewingHistories
    request,              \* the batch request in flight
    calls,                \* log of the store calls and their outcomes
    sleeps,               \* log of the backoff delays slept
    deadlineAt,           \* store calls issued when the caller's deadline
                          \* elapsed, NoDeadline while it has not
    inventoryTable,       \* section 2: the table updateInventory writes
    productTable,         \* section 2: the table of putProduct, deleteProduct
    inflight,             \* section 2: the calls in progress, per caller
    history               \* section 2: log of the calls that returned

vars == <<args, pc, result, table, itemChunks, chunkIx, retryCount,
          unprocessedChunk, processedCount, unprocessedItems, unprocessedKeys,
          allProfiles, allViewingHistories, request, calls, sleeps,
          deadlineAt, inventoryTable, productTable, inflight, history>>

\* the state of the single-item operations of section 2
section2Vars == <<inventoryTable, productTable, inflight, history>>

\* the state of the batch calls of section 3
batchVars == <<args, pc, result, table, itemChunks, chunkIx, retryCount,
               unprocessedChunk, processedCount, unprocessedItems,
               unprocessedKeys, allProfiles, allViewingHistories, request,
               calls, sleeps, deadlineAt>>

\* the state a batch call does not touch
outside == <<deadlineAt, section2Vars>>

\* no deadline has elapsed
NoDeadline == {}

writeLocals == <<itemChunks, chunkIx, unprocessedChunk, processedCount,
                 unprocessedItems>>

readLocals == <<unprocessedKeys, allProfiles, allViewingHistories>>

\* no single-item operation is in progress
Section2Parked ==
    /\ inventoryTable = <<>>
    /\ productTable = <<>>
    /\ inflight = <<>>
    /\ history = <<>>

Init ==
    /\ deadlineAt = NoDeadline
    /\ Section2Parked
    /\ \/ args \in ReadArgs /\ table \in ReadTables
       \/ args \in WriteArgs /\ table = EmptyTable
    /\ pc = "start"
    /\ result = NoResult
    /\ itemChunks = <<>>
    /\ chunkIx = 0
    /\ retryCount = 0
    /\ unprocessedChunk = <<>>
    /\ processedCount = ZeroCount
    /\ unprocessedItems = <<>>
    /\ unprocessedKeys = FALSE
    /\ allProfiles = <<>>
    /\ allViewingHistories = <<>>
    /\ request = <<>>
    /\ calls = <<>>
    /\ sleeps = <<>>

IsRead == args.fn = "getUserAnalytics"

IsWrite == args.fn = "batchAddContent"

\* ------------------------------------------------ batchAddContent: steps

\* the call, up to the first iteration of the chunks' loop
batchAddContent ==
    /\ UNCHANGED outside
    /\ IsWrite /\ pc = "start"
    /\ UNCHANGED <<args, table, retryCount, request, calls, sleeps>>
    /\ UNCHANGED readLocals
    /\ IF args.missing
       THEN \* content.length of undefined throws inside the try
            /\ result' = WriteCatch("TypeError")
            /\ pc' = "done"
            /\ UNCHANGED writeLocals
       ELSE LET validationError ==
                    validateInputs(args.content, args.episodes, args.stats)
                batchItems ==
                    formatBatchWriteItems(args.content, args.episodes, args.stats)
                chunks == chunkArray(batchItems, WriteChunkSize)
            IN  IF validationError # NoError
                THEN /\ result' = WriteInvalid(validationError)
                     /\ pc' = "done"
                     /\ UNCHANGED writeLocals
                ELSE /\ itemChunks' = chunks
                     /\ processedCount' = ZeroCount
                     /\ unprocessedItems' = <<>>
                     /\ IF Len(chunks) = 0
                        THEN /\ result' = WriteReturn(ZeroCount, <<>>)
                             /\ pc' = "done"
                             /\ UNCHANGED <<chunkIx, unprocessedChunk>>
                        ELSE /\ chunkIx' = 1
                             /\ unprocessedChunk' = chunks[1]
                             /\ pc' = "loopTop"
                             /\ UNCHANGED result

\* the test of the while loop of one chunk, and the send it leads to
WriteLoopTop ==
    /\ UNCHANGED outside
    /\ IsWrite /\ pc = "loopTop"
    /\ IF WriteLoopGuard(unprocessedChunk, retryCount)
       THEN /\ request' = WriteInput(unprocessedChunk)
            /\ pc' = "awaitSend"
       ELSE /\ pc' = "afterLoop"
            /\ UNCHANGED request
    /\ UNCHANGED <<args, result, table, retryCount, calls, sleeps>>
    /\ UNCHANGED writeLocals
    /\ UNCHANGED readLocals

\* client.send resolves: some of the request is left unprocessed
WriteResponse ==
    /\ UNCHANGED outside
    /\ IsWrite /\ pc = "awaitSend"
    /\ ~ StoreRejects(request, StoreWriteCeiling)
    /\ \E unprocessed \in UnprocessedChoices(request) :
        /\ calls' = Append(calls, [chunk |-> chunkIx, request |-> request,
                                   outcome |-> "response",
                                   unprocessed |-> unprocessed, fault |-> ""])
        /\ unprocessedChunk' = unprocessed
        /\ processedCount' = UpdateCounts(processedCount, unprocessed)
        /\ IF Len(unprocessed) > 0
           THEN /\ retryCount' = retryCount + 1
                /\ sleeps' = Append(sleeps, [chunk |-> chunkIx,
                                             ms |-> Backoff(retryCount + 1)])
                /\ pc' = "sleeping"
           ELSE /\ pc' = "loopTop"
                /\ UNCHANGED <<retryCount, sleeps>>
    /\ UNCHANGED <<args, result, table, request, itemChunks, chunkIx,
                   unprocessedItems>>
    /\ UNCHANGED readLocals

\* client.send rejects: the catch inside the retry loop
WriteFault ==
    /\ UNCHANGED outside
    /\ IsWrite /\ pc = "awaitSend"
    /\ \E error \in Faults(request, StoreWriteCeiling) :
        LET caught == OnChunkFault(unprocessedItems, unprocessedChunk)
        IN  /\ calls' = Append(calls, [chunk |-> chunkIx, request |-> request,
                                       outcome |-> "fault",
                                       unprocessed |-> <<>>, fault |-> error])
            /\ unprocessedItems' = caught.unprocessedItems
            /\ IF caught.exit = "break"
               THEN pc' = "afterLoop" /\ UNCHANGED result
               ELSE /\ pc' = "done"
                    /\ result' = WriteReturn(processedCount,
                                             caught.unprocessedItems)
    /\ UNCHANGED <<args, table, request, retryCount, sleeps, itemChunks,
                   chunkIx, unprocessedChunk, processedCount>>
    /\ UNCHANGED readLocals

\* the backoff timer fires
WriteWake ==
    /\ UNCHANGED outside
    /\ IsWrite /\ pc = "sleeping"
    /\ pc' = "loopTop"
    /\ UNCHANGED <<args, result, table, retryCount, request, calls, sleeps>>
    /\ UNCHANGED writeLocals
    /\ UNCHANGED readLocals

\* after the while loop: the leftover is recorded, then the next chunk of
\* the for loop, or the return
WriteAfterLoop ==
    /\ UNCHANGED outside
    /\ IsWrite /\ pc = "afterLoop"
    /\ LET left == Remaining(unprocessedItems, unprocessedChunk)
       IN  /\ unprocessedItems' = left
           /\ IF chunkIx < Len(itemChunks)
              THEN /\ chunkIx' = chunkIx + 1
                   /\ retryCount' = 0
                   /\ unprocessedChunk' = itemChunks[chunkIx + 1]
                   /\ pc' = "loopTop"
                   /\ UNCHANGED result
              ELSE /\ result' = WriteReturn(processedCount, left)
                   /\ pc' = "done"
                   /\ UNCHANGED <<chunkIx, retryCount, unprocessedChunk>>
    /\ UNCHANGED <<args, table, request, calls, sleeps, itemChunks,
                   processedCount>>
    /\ UNCHANGED readLocals

\* ------------------------------------------------ getUserAnalytics: steps

\* the call, up to the first test of the retry loop
getUserAnalytics ==
    /\ UNCHANGED outside
    /\ IsRead /\ pc = "start"
    /\ LET error == ValidateUserIds(args.missing, args.userIds)
       IN  IF error # NoError
           THEN /\ result' = ReadInvalid(error)
                /\ pc' = "done"
                /\ UNCHANGED unprocessedKeys
           ELSE /\ unprocessedKeys' = TRUE
                /\ pc' = "loopTop"
                /\ UNCHANGED result
    /\ UNCHANGED <<args, table, retryCount, request, calls, sleeps,
                   allProfiles, allViewingHistories>>
    /\ UNCHANGED writeLocals

\* the test of the retry loop, and the send it leads to, or the return
ReadLoopTop ==
    /\ UNCHANGED outside
    /\ IsRead /\ pc = "loopTop"
    /\ IF ReadLoopGuard(unprocessedKeys, retryCount)
       THEN /\ request' = ReadKeys(args.userIds)
            /\ pc' = "awaitSend"
            /\ UNCHANGED result
       ELSE /\ result' = ReadReturn(unprocessedKeys, allProfiles,
                                    allViewingHistories)
            /\ pc' = "done"
            /\ UNCHANGED request
    /\ UNCHANGED <<args, table, retryCount, calls, sleeps>>
    /\ UNCHANGED writeLocals
    /\ UNCHANGED readLocals

\* client.send resolves: items of the processed keys, the rest unprocessed
ReadResponse ==
    /\ UNCHANGED outside
    /\ IsRead /\ pc = "awaitSend"
    /\ ~ StoreRejects(request, StoreReadCeiling)
    /\ \E unprocessed \in UnprocessedChoices(request) :
        LET items == ReadResponses(table, request, unprocessed)
        IN  /\ calls' = Append(calls, [chunk |-> 0, request |-> request,
                                       outcome |-> "response",
                                       unprocessed |-> unprocessed,
                                       fault |-> ""])
            /\ allProfiles' = allProfiles \o
                    SelectSeq(items, LAMBDA it : StartsWith(it.SK, "PROFILE#"))
            /\ allViewingHistories' = allViewingHistories \o
                    SelectSeq(items, LAMBDA it :
                        ~ StartsWith(it.SK, "PROFILE#")
                        /\ StartsWith(it.SK, "VIEWING#"))
            /\ IF Len(unprocessed) > 0
               THEN /\ retryCount' = retryCount + 1
                    /\ sleeps' = Append(sleeps, [chunk |-> 0,
                                                 ms |-> Backoff(retryCount + 1)])
                    /\ pc' = "sleeping"
                    /\ UNCHANGED unprocessedKeys
               ELSE /\ unprocessedKeys' = FALSE
                    /\ pc' = "loopTop"
                    /\ UNCHANGED <<retryCount, sleeps>>
    /\ UNCHANGED <<args, result, table, request>>
    /\ UNCHANGED writeLocals

\* client.send rejects: the catch of the function
ReadFault ==
    /\ UNCHANGED outside
    /\ IsRead /\ pc = "awaitSend"
    /\ \E error \in Faults(request, StoreReadCeiling) :
        /\ calls' = Append(calls, [chunk |-> 0, request |-> request,
                                   outcome |-> "fault", unprocessed |-> <<>>,
                                   fault |-> error])
        /\ result' = ReadCatch(error)
    /\ pc' = "done"
    /\ UNCHANGED <<args, table, request, retryCount, sleeps>>
    /\ UNCHANGED writeLocals
    /\ UNCHANGED readLocals

\* the backoff timer fires
ReadWake ==
    /\ UNCHANGED outside
    /\ IsRead /\ pc = "sleeping"
    /\ pc' = "loopTop"
    /\ UNCHANGED <<args, result, table, retryCount, request, calls, sleeps>>
    /\ UNCHANGED writeLocals
    /\ UNCHANGED readLocals

\* ------------------------------------------------------------ specification

Next ==
    \/ batchAddContent
    \/ WriteLoopTop
    \/ WriteResponse
    \/ WriteFault
    \/ WriteWake
    \/ WriteAfterLoop
    \/ getUserAnalytics
    \/ ReadLoopTop
    \/ ReadResponse
    \/ ReadFault
    \/ ReadWake

Spec == Init /\ [][Next]_vars

\* The batch calls when every pending step is eventually taken: the store
\* answers each request, each timer fires, and the continuation of an await
\* runs.
SpecLive == Init /\ [][Next]_vars /\ WF_vars(Next)

\* the store calls the batch call has issued so far
Issued == Len(calls) + IF pc = "awaitSend" THEN 1 ELSE 0

\* The deadline of the caller elapses while the call waits for the store
\* or sleeps before a retry.  Neither function takes a deadline or a
\* signal: nothing of the call's state changes.
DeadlineElapses ==
    /\ pc \in {"awaitSend", "sleeping"}
    /\ deadlineAt = NoDeadline
    /\ deadlineAt' = {Issued}
    /\ UNCHANGED <<args, pc, result, table, retryCount, request, calls, sleeps>>
    /\ UNCHANGED writeLocals
    /\ UNCHANGED readLocals
    /\ UNCHANGED section2Vars

NextDeadline ==
    \/ Next
    \/ DeadlineElapses

\* the batch calls, under a caller whose deadline can elapse
SpecDeadline == Init /\ [][NextDeadline]_vars


\* ------------------------------------------------ updateInventory: steps

\* no batch call is in progress
BatchParked ==
    /\ args = [fn |-> "none", missing |-> FALSE, userIds |-> <<>>,
               content |-> <<>>, episodes |-> <<>>, stats |-> <<>>]
    /\ table = EmptyTable
    /\ pc = "parked"
    /\ result = NoResult
    /\ itemChunks = <<>>
    /\ chunkIx = 0
    /\ retryCount = 0
    /\ unprocessedChunk = <<>>
    /\ processedCount = ZeroCount
    /\ unprocessedItems = <<>>
    /\ unprocessedKeys = FALSE
    /\ allProfiles = <<>>
    /\ allViewingHistories = <<>>
    /\ request = <<>>
    /\ calls = <<>>
    /\ sleeps = <<>>
    /\ deadlineAt = NoDeadline

InitInventory ==
    /\ BatchParked
    /\ inventoryTable \in
          [{ProductKey(id) : id \in InventoryIds} -> InitialInventoryItems]
    /\ productTable = <<>>
    /\ inflight = [c \in Callers |-> <<>>]
    /\ history = <<>>

\* the calls made so far, returned or in progress
CallsMade == Len(history) + Cardinality({c \in Callers : inflight[c] # <<>>})

\* a caller calls updateInventory: the try block up to client.send
updateInventory(c) ==
    /\ inflight[c] = <<>>
    /\ CallsMade < MaxCalls
    /\ \E req \in UpdateRequests :
          inflight' = [inflight EXCEPT ![c] =
                          <<[fn |-> "updateInventory", request |-> req,
                             command |-> UpdateCommand(req),
                             issuedAt |-> Len(history)]>>]
    /\ UNCHANGED <<inventoryTable, productTable, history>>
    /\ UNCHANGED batchVars

\* the store runs the UpdateItem, atomically, and the call returns
UpdateItemResponds(c) ==
    /\ inflight[c] # <<>>
    /\ inflight[c][1].fn = "updateInventory"
    /\ LET call == inflight[c][1]
           item == inventoryTable[call.command.Key]
           passes == UpdateCondition(item, call.command.values)
           updated == IF passes
                      THEN UpdateExpression(item, call.command.values)
                      ELSE item
       IN  /\ inventoryTable' =
                  [inventoryTable EXCEPT ![call.command.Key] = updated]
           /\ history' = Append(history,
                  [caller |-> c, fn |-> call.fn, request |-> call.request,
                   issuedAt |-> call.issuedAt, sends |-> <<call.command>>,
                   condition |-> IF passes THEN "passed" ELSE "failed",
                   before |-> item, after |-> updated,
                   result |-> IF passes THEN UpdateReturn(updated)
                              ELSE UpdateCatch("ConditionalCheckFailedException")])
    /\ inflight' = [inflight EXCEPT ![c] = <<>>]
    /\ UNCHANGED productTable
    /\ UNCHANGED batchVars

\* client.send of the UpdateItem rejects with a fault of the store
UpdateItemFault(c) ==
    /\ inflight[c] # <<>>
    /\ inflight[c][1].fn = "updateInventory"
    /\ LET call == inflight[c][1]
           item == inventoryTable[call.command.Key]
       IN  \E error \in ItemFaults :
              history' = Append(history,
                  [caller |-> c, fn |-> call.fn, request |-> call.request,
                   issuedAt |-> call.issuedAt, sends |-> <<call.command>>,
                   condition |-> "fault",
                   before |-> item, after |-> item,
                   result |-> UpdateCatch(error)])
    /\ inflight' = [inflight EXCEPT ![c] = <<>>]
    /\ UNCHANGED <<inventoryTable, productTable>>
    /\ UNCHANGED batchVars

NextInventory ==
    \/ \E c \in Callers : updateInventory(c)
    \/ \E c \in Callers : UpdateItemResponds(c)
    \/ \E c \in Callers : UpdateItemFault(c)

\* the calls of updateInventory of up to two concurrent callers
SpecInventory == InitInventory /\ [][NextInventory]_vars

\* ------------------------------------------------ putProduct, deleteProduct: steps

\* the caller of putProduct and deleteProduct, who awaits each call
Client == 1

InitProducts ==
    /\ BatchParked
    /\ inventoryTable = <<>>
    /\ productTable \in InitialProductTables
    /\ inflight = [c \in Callers |-> <<>>]
    /\ history = <<>>

\* the log entry of a call that returns
Returned(call, sends, condition, before, after, res) ==
    [caller |-> Client, fn |-> call.fn, request |-> call.request,
     issuedAt |-> call.issuedAt, sends |-> sends, condition |-> condition,
     before |-> before, after |-> after, result |-> res]

\* the call of putProduct: the validations, then client.send
putProduct ==
    /\ inflight[Client] = <<>>
    /\ Len(history) < MaxProductCalls
    /\ \E product \in ProductInputs :
        LET error == validateProduct(product)
            call == [fn |-> "putProduct", request |-> product,
                     command |-> [Key |-> KeyOf(product), Item |-> product],
                     issuedAt |-> Len(history)]
            stored == productTable[KeyOf(product)]
        IN  IF error # NoError
            THEN /\ history' = Append(history,
                        Returned(call, <<>>, "none", stored, stored,
                                 Failed(error)))
                 /\ UNCHANGED inflight
            ELSE /\ inflight' = [inflight EXCEPT ![Client] = <<call>>]
                 /\ UNCHANGED history
    /\ UNCHANGED <<inventoryTable, productTable>>
    /\ UNCHANGED batchVars

\* the store runs the PutItem, atomically, and the call returns
PutItemResponds ==
    /\ inflight[Client] # <<>>
    /\ inflight[Client][1].fn = "putProduct"
    /\ LET call == inflight[Client][1]
           stored == productTable[call.command.Key]
           passes == PutCondition(stored)
           written == IF passes THEN <<call.command.Item>> ELSE stored
       IN  /\ productTable' = [productTable EXCEPT ![call.command.Key] = written]
           /\ history' = Append(history,
                  Returned(call, <<call.command>>,
                           IF passes THEN "passed" ELSE "failed",
                           stored, written,
                           IF passes THEN PutReturn(call.request)
                           ELSE PutCatch("ConditionalCheckFailedException")))
    /\ inflight' = [inflight EXCEPT ![Client] = <<>>]
    /\ UNCHANGED inventoryTable
    /\ UNCHANGED batchVars

\* client.send of the PutItem rejects with a fault of the store
PutItemFault ==
    /\ inflight[Client] # <<>>
    /\ inflight[Client][1].fn = "putProduct"
    /\ LET call == inflight[Client][1]
           stored == productTable[call.command.Key]
       IN  \E error \in ItemFaults :
              history' = Append(history,
                  Returned(call, <<call.command>>, "fault", stored, stored,
                           PutCatch(error)))
    /\ inflight' = [inflight EXCEPT ![Client] = <<>>]
    /\ UNCHANGED <<inventoryTable, productTable>>
    /\ UNCHANGED batchVars

\* the call of deleteProduct: the validation, then client.send
deleteProduct ==
    /\ inflight[Client] = <<>>
    /\ Len(history) < MaxProductCalls
    /\ \E productId \in DeleteIds :
        LET error == validateProductId(productId)
            call == [fn |-> "deleteProduct", request |-> productId,
                     command |-> [Key |-> ProductKey(productId), Item |-> <<>>],
                     issuedAt |-> Len(history)]
            stored == productTable[ProductKey(productId)]
        IN  IF error # NoError
            THEN /\ history' = Append(history,
                        Returned(call, <<>>, "none", stored, stored,
                                 Failed(error)))
                 /\ UNCHANGED inflight
            ELSE /\ inflight' = [inflight EXCEPT ![Client] = <<call>>]
                 /\ UNCHANGED history
    /\ UNCHANGED <<inventoryTable, productTable>>
    /\ UNCHANGED batchVars

\* the store runs the DeleteItem, atomically, and the call returns
DeleteItemResponds ==
    /\ inflight[Client] # <<>>
    /\ inflight[Client][1].fn = "deleteProduct"
    /\ LET call == inflight[Client][1]
           stored == productTable[call.command.Key]
           passes == DeleteCondition(stored)
           left == IF passes THEN <<>> ELSE stored
       IN  /\ productTable' = [productTable EXCEPT ![call.command.Key] = left]
           /\ history' = Append(history,
                  Returned(call, <<call.command>>,
                           IF passes THEN "passed" ELSE "failed",
                           stored, left,
                           IF passes THEN DeleteReturn(stored)
                           ELSE DeleteCatch("ConditionalCheckFailedException")))
    /\ inflight' = [inflight EXCEPT ![Client] = <<>>]
    /\ UNCHANGED inventoryTable
    /\ UNCHANGED batchVars

\* client.send of the DeleteItem rejects with a fault of the store
DeleteItemFault ==
    /\ inflight[Client] # <<>>
    /\ inflight[Client][1].fn = "deleteProduct"
    /\ LET call == inflight[Client][1]
           stored == productTable[call.command.Key]
       IN  \E error \in ItemFaults :
              history' = Append(history,
                  Returned(call, <<call.command>>, "fault", stored, stored,
                           DeleteCatch(error)))
    /\ inflight' = [inflight EXCEPT ![Client] = <<>>]
    /\ UNCHANGED <<inventoryTable, productTable>>
    /\ UNCHANGED batchVars

NextProducts ==
    \/ putProduct
    \/ PutItemResponds
    \/ PutItemFault
    \/ deleteProduct
    \/ DeleteItemResponds
    \/ DeleteItemFault

\* the calls of putProduct and deleteProduct of one caller, one at a time
SpecProducts == InitProducts /\ [][NextProducts]_vars

\* ------------------------------------------------ the single-item operations

\* one table and its operations: the inventory table under updateInventory,
\* or the product table under putProduct and deleteProduct
InitSingleItem ==
    \/ InitInventory
    \/ InitProducts

NextSingleItem ==
    \/ DOMAIN productTable = {} /\ NextInventory
    \/ DOMAIN inventoryTable = {} /\ NextProducts

SpecSingleItem == InitSingleItem /\ [][NextSingleItem]_vars

\* ------------------------------------------------ chunkArray: alone

\* the entries of the arrays chunkArray is given
ChunkEntries == {"a", "b", "c"}

ChunkArgs ==
    {[fn |-> "chunkArray", array |-> a, size |-> n] :
        a \in SeqsUpTo(ChunkEntries, MaxChunkInput), n \in 1..MaxChunkSize}

InitChunk ==
    /\ args \in ChunkArgs
    /\ pc = "start"
    /\ table = EmptyTable
    /\ result = NoResult
    /\ itemChunks = <<>>
    /\ chunkIx = 0
    /\ retryCount = 0
    /\ unprocessedChunk = <<>>
    /\ processedCount = ZeroCount
    /\ unprocessedItems = <<>>
    /\ unprocessedKeys = FALSE
    /\ allProfiles = <<>>
    /\ allViewingHistories = <<>>
    /\ request = <<>>
    /\ calls = <<>>
    /\ sleeps = <<>>
    /\ deadlineAt = NoDeadline
    /\ Section2Parked

\* chunkArray(array, size) returns
ChunkArrayReturns ==
    /\ args.fn = "chunkArray" /\ pc = "start"
    /\ itemChunks' = chunkArray(args.array, args.size)
    /\ pc' = "done"
    /\ UNCHANGED <<args, result, table, chunkIx, retryCount, unprocessedChunk,
                   processedCount, unprocessedItems, request, calls, sleeps>>
    /\ UNCHANGED readLocals
    /\ UNCHANGED outside

NextChunk == ChunkArrayReturns

\* chunkArray applied to every array and size of the bounds
SpecChunk == InitChunk /\ [][NextChunk]_vars

\* ------------------------------------------------------------ observations

Done == pc = "done"

\* a call of batchAddContent whose inputs passed validateInputs
WriteValidated ==
    /\ IsWrite /\ ~ args.missing
    /\ validateInputs(args.content, args.episodes, args.stats) = NoError

\* the items the call submits
BatchItems == formatBatchWriteItems(args.content, args.episodes, args.stats)

\* the positions in the log of the calls made for chunk c
CallsOf(c) == {i \in 1..Len(calls) : calls[i].chunk = c}

\* the number of the attempt, within its chunk, that call i is
AttemptNo(i) == Cardinality({j \in CallsOf(calls[i].chunk) : j <= i})

\* the items of chunk c the store accepted
AcceptedItems(c) ==
    UNION {Range(calls[i].request) \ Range(calls[i].unprocessed) :
              i \in {j \in CallsOf(c) : calls[j].outcome = "response"}}

\* the store accepted every item of chunk c
ChunkCompleted(c) == AcceptedItems(c) = Range(itemChunks[c])

\* a submit of chunk c raised a fault
ChunkFaulted(c) == \E i \in CallsOf(c) : calls[i].outcome = "fault"

\* the category of a written item, from the kind of entity it stores
CategoryOf(item) ==
    IF item.entity_type = <<"EPISODE">> THEN "episodes"
    ELSE IF Len(item.entity_type) = 2 THEN "stats" ELSE "metadata"

\* how many items of a category the store accepted, over all chunks
AcceptedCount(category) ==
    Cardinality({<<c, item>> \in
                    UNION {{c} \X AcceptedItems(c) : c \in 1..Len(itemChunks)} :
                    CategoryOf(item) = category})

\* the chunk an entry of unprocessedItems comes from
ChunkOfItem(item) ==
    CHOOSE c \in 1..Len(itemChunks) : item \in Range(itemChunks[c])

\* ------------------------------------------------------------ claims

\* C1: on return of a validated batchAddContent, the processed counts plus
\* the number of distinct items listed as unprocessed equal the number of
\* items submitted (stated for inputs that format to pairwise distinct
\* items, where "distinct items" has one meaning).
C1_EveryItemInOneOutcome ==
    (Done /\ WriteValidated /\ ~ HasDuplicates(BatchItems)) =>
        result.processedItems.metadata + result.processedItems.episodes
            + result.processedItems.stats + Cardinality(Range(unprocessedItems))
        = Len(BatchItems)

\* C2: on return of a validated batchAddContent, each per-category count of
\* processedItems is the number of items of that category the store accepted.
C2_CountsAreAcceptedItems ==
    (Done /\ WriteValidated) =>
        /\ result.processedItems.metadata = AcceptedCount("metadata")
        /\ result.processedItems.episodes = AcceptedCount("episodes")
        /\ result.processedItems.stats = AcceptedCount("stats")

\* C3: when the third BatchGetItem of getUserAnalytics still leaves keys
\* unprocessed, the result has success = false.
C3_ExhaustedReadFails ==
    (/\ Done /\ IsRead
     /\ Len(calls) = maxRetries
     /\ calls[Len(calls)].outcome = "response"
     /\ calls[Len(calls)].unprocessed # <<>>) => result.success = FALSE

\* C4: a validated batchAddContent returns success = true exactly when the
\* store accepted every item of every chunk.
C4_SuccessIffAllChunksCompleted ==
    (Done /\ WriteValidated) =>
        (result.success <=> \A c \in 1..Len(itemChunks) : ChunkCompleted(c))

C4_Witness ==
    /\ Done /\ WriteValidated /\ result.success
    /\ Len(itemChunks) = 2
    /\ \E i \in 1..Len(calls) : calls[i].unprocessed # <<>>

\* C5: a store fault on an attempt that is not the third of its chunk is
\* followed by a submit of the same pending set.
C5_FaultIsRetried ==
    Done =>
        \A i \in 1..Len(calls) :
            (calls[i].outcome = "fault" /\ AttemptNo(i) < maxRetries) =>
                /\ i < Len(calls)
                /\ calls[i + 1].chunk = calls[i].chunk
                /\ calls[i + 1].request = calls[i].request

\* C6: an entry abandoned because submit raised a fault is reported with a
\* reason that names the fault and is not the reason of exhausted retries.
C6_FaultReasonDistinct ==
    (Done /\ WriteValidated) =>
        \A i \in 1..Len(unprocessedItems) :
            LET c == ChunkOfItem(unprocessedItems[i])
            IN  ChunkFaulted(c) =>
                    /\ result.unprocessedItems[i].reason # MaxRetriesReason
                    /\ \E k \in CallsOf(c) :
                          /\ calls[k].outcome = "fault"
                          /\ calls[k].fault
                                \in Range(result.unprocessedItems[i].reason)

\* C7: every BatchGetItem request of getUserAnalytics holds at most 100 keys.
C7_ReadRequestWithinCeiling ==
    (IsRead /\ pc = "awaitSend") => Len(request) <= StoreReadCeiling

\* the invalid inputs of getUserAnalytics: no list or an empty one, more
\* than 100 entries, an identifier that is not a number
InvalidRead ==
    /\ IsRead
    /\ \/ args.missing
       \/ Len(args.userIds) = 0
       \/ Len(args.userIds) > 100
       \/ \E i \in 1..Len(args.userIds) :
             \/ args.userIds[i] = <<>>
             \/ \E k \in 1..Len(args.userIds[i]) :
                   args.userIds[i][k] \notin Digits

\* the invalid inputs of batchAddContent: an empty list, more than 25
\* entries, an entry without identifier, a content without stats, a series
\* without episodes
InvalidWrite ==
    /\ IsWrite /\ ~ args.missing
    /\ \/ Len(args.content) = 0
       \/ Len(args.content) > 25
       \/ \E i \in 1..Len(args.content) :
             LET item == args.content[i]
             IN  \/ item.id = <<>>
                 \/ item.id \notin {args.stats[k].contentId :
                                        k \in 1..Len(args.stats)}
                 \/ /\ item.type = "SERIES"
                    /\ item.id \notin {args.episodes[k].seriesId :
                                           k \in 1..Len(args.episodes)}

\* C8: an invalid input makes no store call and creates no chunk, and the
\* call returns success = false with an error.
C8_InvalidInputRejectedBeforeStore ==
    (InvalidRead \/ InvalidWrite) =>
        /\ calls = <<>> /\ request = <<>> /\ itemChunks = <<>>
        /\ pc \in {"start", "done"}
        /\ Done => /\ result.status = "returned"
                   /\ result.success = FALSE
                   /\ result.error # <<>>

C8_Witness ==
    /\ Done /\ InvalidWrite
    /\ Len(args.content) = 2
    /\ args.content[1].type = "MOVIE" /\ args.content[2].type = "SERIES"
    /\ args.stats = <<StatsOf(Movie(1)), StatsOf(Series(2))>>
    /\ args.episodes = <<>>
    /\ result.success = FALSE

\* C9: whatever faults the chunks before it met, every chunk is submitted,
\* first as the chunk itself, and each of its items is accepted by the
\* store or reported as unprocessed.
C9_FaultAbortsOnlyItsChunk ==
    (Done /\ WriteValidated) =>
        \A c \in 1..Len(itemChunks) :
            /\ CallsOf(c) # {}
            /\ \A i \in CallsOf(c) :
                  AttemptNo(i) = 1 => calls[i].request = itemChunks[c]
            /\ \A item \in Range(itemChunks[c]) :
                  item \in AcceptedItems(c) \/ item \in Range(unprocessedItems)

C9_Witness ==
    /\ Done /\ WriteValidated
    /\ Len(itemChunks) = 2
    /\ ChunkFaulted(1)
    /\ ~ ChunkFaulted(2) /\ ChunkCompleted(2)

\* C10: a call never raises: it ends with a returned result, and with
\* success = false when a store call raised a fault.
C10_NeverRaises ==
    /\ result.status # "raised"
    /\ Done =>
          /\ result.status = "returned"
          /\ (\E i \in 1..Len(calls) : calls[i].outcome = "fault")
                => result.success = FALSE

C10_Witness ==
    /\ Done /\ IsRead
    /\ Len(calls) = maxRetries
    /\ calls[maxRetries].outcome = "fault"
    /\ result.status = "returned" /\ result.success = FALSE

\* the first BatchGetItem resolved and left no key unprocessed
FirstReadComplete ==
    /\ IsRead /\ Len(calls) >= 1
    /\ calls[1].outcome = "response" /\ calls[1].unprocessed = <<>>

\* the entries of data that are for a userId
DataEntriesOf(userId) ==
    {j \in 1..Len(result.data) : result.data[j].userId = userId}

\* C19: when the first BatchGetItem returns every requested key,
\* getUserAnalytics issues no second one and returns success = true with
\* the all-retrieved message, and data holds exactly one entry for each
\* requested userId whose profile the store returned, and no other entry.
C19_CompleteFirstAttempt ==
    FirstReadComplete =>
        /\ Len(calls) = 1 /\ pc \in {"loopTop", "done"}
        /\ Done =>
              /\ result.success = TRUE
              /\ result.message = <<"All items retrieved successfully">>
              /\ \A i \in 1..Len(args.userIds) :
                    Cardinality(DataEntriesOf(args.userIds[i])) =
                        IF Stored(table, formatUserKeys(args.userIds)[i])
                        THEN 1 ELSE 0
              /\ \A j \in 1..Len(result.data) :
                    result.data[j].userId \in Range(args.userIds)

C19_Witness ==
    /\ Done /\ FirstReadComplete
    /\ Len(args.userIds) = 2
    /\ Len(result.data) = 1
    /\ result.success = TRUE

\* C20: every BatchGetItem of getUserAnalytics after the first requests
\* exactly the keys the one before it left unprocessed.
C20_ResubmitsOnlyUnprocessed ==
    IsRead =>
        \A i \in 1..(Len(calls) - 1) :
            calls[i].outcome = "response" =>
                Range(calls[i+1].request) = Range(calls[i].unprocessed)

\* C11: once the deadline of the caller has elapsed during the retry loop,
\* the call issues no further store request: the requests issued stay the
\* ones issued when the deadline elapsed.
C11_NoSubmitAfterDeadline ==
    \A issuedThen \in deadlineAt : Issued <= issuedThen

\* the returned calls of updateInventory, by their position in the log
UpdateCalls == {i \in 1..Len(history) : history[i].fn = "updateInventory"}

\* the number a stored stock stands for
StockLevel(item) == NumberOf(item.stock.value)

\* C12: an updateInventory call whose conditional check fails has sent
\* exactly one UpdateItem and returns success = false with the
\* condition-failed reason, 'Insufficient stock available'.
C12_ConditionFailureNotRetried ==
    \A i \in UpdateCalls :
        history[i].condition = "failed" =>
            /\ Len(history[i].sends) = 1
            /\ history[i].result.success = FALSE
            /\ history[i].result.error = <<"Insufficient stock available">>

C12_Witness ==
    \E i \in UpdateCalls :
        /\ history[i].condition = "failed"
        /\ history[i].before.stock = AttrS(StringOfInt(-1))
        /\ history[i].result.success = FALSE

\* C13: a call of updateInventory with a positive quantity never leaves the
\* stored stock below 0, and a subtract of more than the current stock
\* returns success = false.
C13_StockNeverNegative ==
    \A i \in UpdateCalls :
        (history[i].request.quantity > 0 /\ history[i].condition # "fault") =>
            /\ history[i].after.stock # Absent => StockLevel(history[i].after) >= 0
            /\ (/\ history[i].request.operation = "subtract"
                /\ history[i].before.stock # Absent
                /\ history[i].request.quantity > StockLevel(history[i].before))
               => history[i].result.success = FALSE

\* C14: a successful updateInventory with a positive quantity leaves the
\* stored stock at the previous stock plus the quantity for 'add', minus the
\* quantity for 'subtract', and returns that level as data.stock.
C14_StockMovesByQuantity ==
    \A i \in UpdateCalls :
        (/\ history[i].result.success
         /\ history[i].request.quantity > 0
         /\ history[i].before.stock # Absent) =>
            LET q == history[i].request.quantity
                expected == IF history[i].request.operation = "add"
                            THEN StockLevel(history[i].before) + q
                            ELSE StockLevel(history[i].before) - q
            IN  /\ StockLevel(history[i].after) = expected
                /\ StockLevel(history[i].result.data) = expected

\* C15: two 'add' calls of positive quantities in progress at the same time
\* on a product whose stock is stored as updateInventory stores it, neither
\* meeting a fault of the store, both return success and leave the stock at
\* the initial stock plus both quantities.
C15_ConcurrentAddsBothApplied ==
    (/\ Len(history) = 2
     /\ UpdateCalls = {1, 2}
     /\ history[2].issuedAt = 0
     /\ \A i \in {1, 2} : /\ history[i].request.operation = "add"
                          /\ history[i].request.quantity > 0
                          /\ history[i].condition # "fault"
     /\ history[1].request.productId = history[2].request.productId
     /\ history[1].before.stock.type = "S")
    => /\ history[1].result.success /\ history[2].result.success
       /\ StockLevel(history[2].after) =
             StockLevel(history[1].before) + history[1].request.quantity
                + history[2].request.quantity

\* the returned calls of putProduct and of deleteProduct, by position
PutCalls == {i \in 1..Len(history) : history[i].fn = "putProduct"}

DeleteCalls == {i \in 1..Len(history) : history[i].fn = "deleteProduct"}

\* no deleteProduct returned between calls i and j
NoDeleteBetween(i, j) == \A k \in (i+1)..(j-1) : k \notin DeleteCalls

\* no putProduct returned between calls i and j
NoPutBetween(i, j) == \A k \in (i+1)..(j-1) : k \notin PutCalls

\* two puts under the same PK and SK
SameKey(i, j) == KeyOf(history[i].request) = KeyOf(history[j].request)

\* C16, as claimed: of the putProduct calls with the same PK and SK and no
\* deleteProduct in between, only the first can succeed: every call after
\* it returns success = false and writes nothing.
C16_OnlyFirstPutSucceeds ==
    \A i, j \in PutCalls :
        (i < j /\ SameKey(i, j) /\ NoDeleteBetween(i, j)) =>
            /\ history[j].result.success = FALSE
            /\ history[j].after = history[j].before

\* C16, amended: a putProduct under a key that holds a product returns
\* success = false and leaves the stored product as it is, with 'Product
\* already exists' when the call passes validation and its PutItem meets no
\* fault; so of the calls with the same PK and SK and no deleteProduct in
\* between at most one succeeds.
C16_StoredProductNotOverwritten ==
    /\ \A j \in PutCalls :
          history[j].before # <<>> =>
              /\ history[j].result.success = FALSE
              /\ history[j].after = history[j].before
              /\ (history[j].sends # <<>> /\ history[j].condition # "fault")
                    => history[j].result.error = <<"Product already exists">>
    /\ \A i, j \in PutCalls :
          (i < j /\ SameKey(i, j) /\ NoDeleteBetween(i, j)) =>
              ~ (history[i].result.success /\ history[j].result.success)

C16_Witness ==
    \E i, j \in PutCalls :
        /\ i < j /\ SameKey(i, j) /\ NoDeleteBetween(i, j)
        /\ history[i].result.success
        /\ history[j].request # history[i].request
        /\ history[j].result.error = <<"Product already exists">>
        /\ productTable[KeyOf(history[j].request)] = <<history[i].request>>

\* the seven documented rules of a product
SatisfiesRules(product) ==
    /\ \A f \in {"PK", "SK", "productId", "name", "category", "lastUpdated",
                 "brand"} : product[f] # <<>>
    /\ product.price > 0 /\ product.price % 10 = 0
    /\ product.stock >= 0 /\ IsInteger(product.stock)
    /\ product.PK = <<"PRODUCT#">> \o product.productId
    /\ product.SK = <<"METADATA#">> \o product.productId
    /\ product.lastUpdated \in IsoDates
    /\ product.brand \in approvedBrands

\* C17: putProduct returns a failure without a store call exactly for the
\* products that violate one of the seven documented rules.
C17_ValidationIsTheSevenRules ==
    \A i \in PutCalls :
        (history[i].sends = <<>> /\ history[i].result.success = FALSE)
        <=> ~ SatisfiesRules(history[i].request)

\* the deleteProduct calls with a non-empty id
DeletesById == {i \in DeleteCalls : history[i].request # <<>>}

\* a successful delete returns the productId of the product it found and
\* leaves the key empty, and a second delete of the id with no putProduct
\* in between fails
DeleteReturnsWhatItRemoved ==
    /\ \A i \in DeletesById :
          history[i].result.success =>
              /\ history[i].result.data[1].productId
                    = history[i].before[1].productId
              /\ history[i].after = <<>>
    /\ \A i, j \in DeletesById :
          (/\ i < j /\ history[i].request = history[j].request
           /\ history[i].result.success /\ NoPutBetween(i, j))
          => history[j].result.success = FALSE

\* C18, as claimed: deleteProduct(id) with a non-empty id returns
\* success = true exactly when the product is stored under
\* PRODUCT#id / METADATA#id at the call, with that product's productId; the
\* product is absent afterwards and a second delete fails.
C18_DeleteSucceedsIffStored ==
    /\ \A i \in DeletesById :
          history[i].result.success <=> history[i].before # <<>>
    /\ DeleteReturnsWhatItRemoved

\* C18, amended: the same, for the calls whose DeleteItem meets no fault of
\* the store; a call that meets one returns success = false and deletes
\* nothing.
C18_DeleteSucceedsIffStoredNoFault ==
    /\ \A i \in DeletesById :
          IF history[i].condition = "fault"
          THEN /\ history[i].result.success = FALSE
               /\ history[i].after = history[i].before
          ELSE history[i].result.success <=> history[i].before # <<>>
    /\ DeleteReturnsWhatItRemoved

C18_Witness ==
    \E i, j \in DeletesById :
        /\ j = i + 1 /\ history[i].request = history[j].request
        /\ history[i].result.success
        /\ history[i].result.data[1].productId = history[i].request
        /\ history[j].result.error = <<"Product does not exist">>

\* the last call logged for chunk c
LastCallOf(c) == CHOOSE i \in CallsOf(c) : \A j \in CallsOf(c) : j <= i

\* C21: in batchAddContent every submit of a chunk after the first follows
\* a response to the submit before it and carries, verbatim and in order,
\* the items that response left unprocessed; this holds of the submit in
\* flight too, so that no submit is issued before the one before it is
\* answered.
C21_RetryCarriesUnprocessedVerbatim ==
    IsWrite =>
        /\ \A i, j \in 1..Len(calls) :
              (calls[i].chunk = calls[j].chunk /\ AttemptNo(j) = AttemptNo(i) + 1)
              => /\ calls[i].outcome = "response"
                 /\ calls[j].request = calls[i].unprocessed
        /\ (pc = "awaitSend" /\ CallsOf(chunkIx) # {}) =>
              /\ calls[LastCallOf(chunkIx)].outcome = "response"
              /\ request = calls[LastCallOf(chunkIx)].unprocessed

C21_Witness ==
    /\ Done /\ WriteValidated
    /\ \E i, j \in 1..Len(calls) :
          /\ calls[i].chunk = calls[j].chunk /\ AttemptNo(j) = AttemptNo(i) + 1
          /\ Len(calls[i].request) = 3
          /\ Len(calls[j].request) = 2
          /\ calls[j].request = calls[i].unprocessed

\* C22: in the data returned by getUserAnalytics no user appears twice and
\* no viewing-history record appears twice under a user, whatever keys the
\* responses left unprocessed.
C22_NoDuplicateData ==
    (Done /\ IsRead /\ result.success) =>
        /\ ~ HasDuplicates([j \in 1..Len(result.data) |-> result.data[j].userId])
        /\ \A j \in 1..Len(result.data) :
              ~ HasDuplicates(result.data[j].viewingHistory)

\* C23: on return of a validated batchAddContent whose inputs format to
\* pairwise distinct items, no item is listed twice in unprocessedItems, a
\* submit that raised a fault included.
C23_UnprocessedListedOnce ==
    (Done /\ WriteValidated /\ ~ HasDuplicates(BatchItems)) =>
        /\ ~ HasDuplicates(unprocessedItems)
        /\ Len(result.unprocessedItems) = Cardinality(Range(unprocessedItems))

\* C24: the chunks chunkArray returns, concatenated in order, are the
\* input: every entry is in one chunk, at its place, and the chunks hold as
\* many entries as the input.
C24_ChunksConcatenateToInput ==
    (args.fn = "chunkArray" /\ pc = "done") =>
        /\ Flatten(itemChunks) = args.array
        /\ Len(Flatten(itemChunks)) = Len(args.array)
        /\ \A k \in 1..Len(itemChunks) :
              \A q \in 1..Len(itemChunks[k]) :
                  itemChunks[k][q] = args.array[(k - 1) * args.size + q]

C24_Witness ==
    /\ args.fn = "chunkArray" /\ pc = "done"
    /\ args.array = <<"a", "b", "a", "c">> /\ args.size = 3
    /\ itemChunks = << <<"a", "b", "a">>, <<"c">> >>

\* C25: every BatchWriteItem request of batchAddContent, logged or in
\* flight, first submit or retry, carries at least 1 and at most 25 items.
C25_WriteRequestWithinCeiling ==
    IsWrite =>
        /\ \A i \in 1..Len(calls) :
              Len(calls[i].request) >= 1
              /\ Len(calls[i].request) <= StoreWriteCeiling
        /\ pc = "awaitSend" =>
              Len(request) >= 1 /\ Len(request) <= StoreWriteCeiling

C25_Witness ==
    /\ Done /\ WriteValidated
    /\ Len(BatchItems) > StoreWriteCeiling
    /\ Len(calls) = 3
    /\ Len(calls[1].request) = StoreWriteCeiling
    /\ calls[2].chunk = 1 /\ Len(calls[2].request) = 1
    /\ calls[3].chunk = 2

\* the store calls stay within the budget of 3: in total for
\* getUserAnalytics, per chunk for batchAddContent
CallsWithinBudget ==
    /\ IsRead => Issued <= maxRetries
    /\ IsWrite =>
          \A c \in 1..Len(itemChunks) :
              Cardinality(CallsOf(c))
                 + (IF pc = "awaitSend" /\ chunkIx = c THEN 1 ELSE 0)
              <= MaxWriteRetries

\* the call has returned a result; what a write's exhausted chunk still
\* had pending is listed, and a read with keys left says so
ReturnedWithRemainder ==
    /\ Done /\ result.status = "returned"
    /\ IsWrite =>
          \A c \in 1..Len(itemChunks) :
              (/\ Cardinality(CallsOf(c)) = MaxWriteRetries
               /\ calls[LastCallOf(c)].outcome = "response")
              => Range(calls[LastCallOf(c)].unprocessed)
                    \subseteq Range(unprocessedItems)
    /\ (/\ IsRead /\ Len(calls) = maxRetries
        /\ calls[maxRetries].outcome = "response"
        /\ calls[maxRetries].unprocessed # <<>>)
       => result.message =
             <<"Some items could not be retrieved after maximum retries">>

C27_NoSubmitAfterFullAcceptance ==
    IsWrite =>
        \A i \in 1..Len(calls) :
            (calls[i].outcome = "response" /\ calls[i].unprocessed = <<>>) =>
                /\ Cardinality(CallsOf(calls[i].chunk)) = AttemptNo(i)
                /\ ~ (pc = "awaitSend" /\ chunkIx = calls[i].chunk)

C27_Witness ==
    /\ Done /\ WriteValidated /\ Len(itemChunks) = 2
    /\ Len(calls) = 3
    /\ calls[1].chunk = 1 /\ Len(calls[1].unprocessed) = 1
    /\ calls[2].chunk = 1 /\ calls[2].outcome = "response"
    /\ calls[2].unprocessed = <<>>
    /\ calls[3].chunk = 2 /\ calls[3].outcome = "response"
    /\ calls[3].unprocessed = <<>>

\* the place of the i-th logged sleep among the sleeps of its chunk (a read
\* has the single chunk 0)
SleepNo(i) == Cardinality({j \in 1..i : sleeps[j].chunk = sleeps[i].chunk})

\* C28: in both retry loops the delays slept for one chunk never decrease
\* from one retry to the next, and none exceeds one fixed maximum, the delay
\* of the last retry the loops allow.
C28_DelaysNonDecreasingAndBounded ==
    /\ \A i \in 1..Len(sleeps) : sleeps[i].ms <= Backoff(maxRetries)
    /\ \A i, j \in 1..Len(sleeps) :
          (i < j /\ sleeps[i].chunk = sleeps[j].chunk) =>
              sleeps[i].ms <= sleeps[j].ms

C28_Witness ==
    /\ Done /\ IsWrite
    /\ \E i, j, k \in 1..Len(sleeps) :
          /\ i < j /\ j < k
          /\ sleeps[i].chunk = sleeps[j].chunk
          /\ sleeps[j].chunk = sleeps[k].chunk
          /\ sleeps[i].ms < sleeps[j].ms
          /\ sleeps[j].ms < sleeps[k].ms
          /\ sleeps[k].ms = Backoff(maxRetries)

\* C29: the delay slept after the attempt numbered a, the first attempt
\* being a = 0, is 100 * 2^a: 100, 200 and 400 ms after the first, second
\* and third attempts.
C29_DelayIsBaseTimesTwoToAttempt ==
    \A i \in 1..Len(sleeps) :
        sleeps[i].ms = BackoffUnit * Pow2(SleepNo(i) - 1)

\* the last call that returned
LastReturned == history[Len(history)]

\* a call returns in this step
CallReturns == Len(history') = Len(history) + 1

\* C30: a step in which updateInventory, putProduct or deleteProduct
\* returns success = false leaves both tables as they were: nothing is
\* written and nothing is deleted.
C30_FailedCallLeavesTable ==
    [][(CallReturns /\ ~ history'[Len(history')].result.success) =>
           /\ inventoryTable' = inventoryTable
           /\ productTable' = productTable]_vars

\* a put rejected by validation, a put rejected as a duplicate and a delete
\* of an absent product have returned, and the stored product is the one
\* the duplicate met
C30_Witness ==
    /\ Len(history) = MaxProductCalls
    /\ \E i, j, k \in 1..Len(history) :
          /\ history[i].fn = "putProduct" /\ history[i].condition = "none"
          /\ ~ history[i].result.success
          /\ history[j].fn = "putProduct" /\ history[j].condition = "failed"
          /\ ~ history[j].result.success
          /\ history[j].before # <<>>
          /\ productTable[KeyOf(history[j].request)] = history[j].before
          /\ history[k].fn = "deleteProduct"
          /\ history[k].condition = "failed"
          /\ ~ history[k].result.success
          /\ history[k].before = <<>> /\ history[k].after = <<>>

\* an updateInventory whose condition failed has returned and the item is
\* the one it met
C30_WitnessInventory ==
    /\ history # <<>>
    /\ LastReturned.fn = "updateInventory"
    /\ LastReturned.condition = "failed"
    /\ ~ LastReturned.result.success
    /\ inventoryTable[UpdateCommand(LastReturned.request).Key]
          = LastReturned.before

=============================================================================
